---- MODULE Spec2Model ----
(***************************************************************************)
(* Model of git-gtool's merge-renovate-prs core:                           *)
(*   - model.PagedListGenerator (the paged iterator),                      *)
(*   - renovatepr.checkStatusChecks (the check verdict),                   *)
(*   - renovatepr.MergePRs / mergeStep (the merge loop),                   *)
(*   - renovatepr.approvePr and renovatepr.mergePr.                        *)
(***************************************************************************)
EXTENDS Integers, Sequences, FiniteSets, TLC

\* ------------------------------------------------------------------------
\* Bounds of the model
\* ------------------------------------------------------------------------
MaxPages == 3
MaxPageLen == 2
MaxFails == 1
MaxRequired == 2
MaxStatuses == 1
MaxRuns == 1
MaxPRs == 2
MaxSupply == 100
MaxReviews == 2
MaxCalls == 2
MaxOps == 5

VARIABLES
  \* PagedListGenerator fields (g.index, g.nextPage, g.items, g.opts.Page,
  \* g.endOfList, g.lastPage) as one record
  g,
  \* the remote paginated listing: a sequence of pages, each a sequence of items
  pages,
  \* number of Retrieve calls that have failed so far
  fails,
  \* page numbers Retrieve was called with, in order
  fetched,
  \* position of the caller of the generator
  gpc,
  \* items the caller has received from Next, in order
  got,
  \* result of the last HasNext call ("none" before the first)
  hasNextRet,
  \* error of the last Next call ("none" before the first)
  nextErr,
  \* the HasNext and Next calls a caller made in an order of its own choice:
  \* what each call fetched and returned, and the generator it left
  gcalls,
  \* branch protection of the base branch: the list of required checks
  requiredChecks,
  \* the commit statuses the platform reports for the head commit
  repoStatuses,
  \* the check-runs the platform reports for the head commit
  checkRuns,
  \* which remote call of checkStatusChecks fails ("none": none of them)
  failAt,
  \* the checkResults map of checkStatusChecks when it returned
  checkResults,
  \* the error checkStatusChecks returned ("none" before it ran)
  chkErr,
  \* position in MergePRs / mergeStep
  pc,
  \* the loop variable i of MergePRs
  i,
  \* errCount of MergePRs
  errCount,
  \* hasMore and err of MergePRs, as returned by the last mergeStep
  hasMore,
  err,
  \* renovatePrs and activePr of the running mergeStep
  renovatePrs,
  activePr,
  \* the remote calls and sleeps of the current loop iteration, in order
  calls,
  \* number of mergeStep calls made so far
  steps,
  \* the verdict of checkStatusChecks in the current iteration ("none": not run)
  verdict,
  \* whether every required check resolved to success in that checkStatusChecks
  requiredOk,
  \* the error MergePRs returned to its caller ("none": it has not returned)
  result,
  \* cooperative platform: bot pull requests opened in all, and still open
  total,
  supply,
  \* the states of the reviews the platform holds for the pull request, oldest
  \* first
  reviews,
  \* the calls of approvePr made so far: what the platform answered, the
  \* remote calls made, the error returned, the reviews before and after
  approvals,
  \* the calls of mergePr made so far: what the platform answered, the remote
  \* calls made, the error returned
  merges,
  \* the head commit of every workflow run of the listing, by run number
  headSHA,
  \* the invocations of approveWorkflowRuns made: failure injected, approval
  \* requests issued, error returned
  gates

genVars == <<g, pages, fails, fetched, gpc, got, hasNextRet, nextErr, gcalls>>

chkVars == <<requiredChecks, repoStatuses, checkRuns, failAt, checkResults, chkErr>>

loopVars ==
  <<pc, i, errCount, hasMore, err, renovatePrs, activePr, calls, steps, verdict,
    requiredOk, result>>

platformVars == <<total, supply>>

unitVars == <<reviews, approvals, merges, headSHA, gates>>

vars == <<genVars, chkVars, loopVars, platformVars, unitVars>>

\* An empty map[string]string
EmptyMap == [x \in {} |-> "missing"]

\* checkStatusChecks not in use
ChkIdle ==
  /\ requiredChecks = <<>>
  /\ repoStatuses = <<>>
  /\ checkRuns = <<>>
  /\ failAt = "none"
  /\ checkResults = EmptyMap
  /\ chkErr = "none"

\* ------------------------------------------------------------------------
\* model.PagedListGenerator
\* ------------------------------------------------------------------------
NoItem == 0

\* The items of the remote listing are numbered 1..N in listing order.
RECURSIVE PagesOf(_, _)
PagesOf(sizes, from) ==
  IF sizes = <<>> THEN <<>>
  ELSE <<[k \in 1..Head(sizes) |-> from + k]>> \o PagesOf(Tail(sizes), from + Head(sizes))

RECURSIVE Flatten(_)
Flatten(ps) == IF ps = <<>> THEN <<>> ELSE Head(ps) \o Flatten(Tail(ps))

SizeSeqs == UNION {[1..n -> 0..MaxPageLen] : n \in 1..MaxPages}

\* The zero value of a PagedListGenerator
NewGenerator ==
  [index |-> 0, nextPage |-> 0, items |-> <<>>, optsPage |-> 0,
   endOfList |-> FALSE, lastPage |-> FALSE]

\* The remote endpoint behind Retrieve: page 0 and page 1 both name the first
\* page; NextPage is 0 on the last page.  A failing call returns no items.
Retrieve(page, ok) ==
  LET p == IF page = 0 THEN 1 ELSE page
  IN IF ok
     THEN [items |-> pages[p],
           nextPage |-> IF p < Len(pages) THEN p + 1 ELSE 0,
           err |-> "nil"]
     ELSE [items |-> <<>>, nextPage |-> 0, err |-> "transport"]

\* NeedsFetch without the test that the cached items are used up
NeedsFetchEager(gen) == ~gen.lastPage

\* The guard of getNextPage: a fetch happens exactly when this holds
NeedsFetch(gen) == ~gen.lastPage /\ gen.index >= Len(gen.items)

\* getNextPage going back to the first page after a failed fetch
getNextPageRestarts(gen, ok) ==
  IF NeedsFetch(gen)
  THEN LET res == Retrieve(gen.nextPage, ok)
           g1 == [gen EXCEPT !.index = 0, !.optsPage = gen.nextPage,
                             !.items = res.items]
       IN IF res.err # "nil"
          THEN [g |-> [g1 EXCEPT !.nextPage = 0], err |-> res.err]
          ELSE LET g2 == [g1 EXCEPT !.lastPage = (res.nextPage = 0),
                                    !.nextPage = res.nextPage]
               IN [g |-> [g2 EXCEPT !.endOfList =
                                      (g2.index >= Len(g2.items) /\ g2.lastPage)],
                   err |-> "nil"]
  ELSE [g |-> gen, err |-> "nil"]

getNextPage(gen, ok) ==
  IF NeedsFetch(gen)
  THEN LET res == Retrieve(gen.nextPage, ok)
           g1 == [gen EXCEPT !.index = 0, !.optsPage = gen.nextPage,
                             !.items = res.items]
       IN IF res.err # "nil"
          THEN [g |-> g1, err |-> res.err]
          ELSE LET g2 == [g1 EXCEPT !.lastPage = (res.nextPage = 0),
                                    !.nextPage = res.nextPage]
               IN [g |-> [g2 EXCEPT !.endOfList =
                                      (g2.index >= Len(g2.items) /\ g2.lastPage)],
                   err |-> "nil"]
  ELSE [g |-> gen, err |-> "nil"]

HasNext(gen, ok) ==
  LET g1 == IF ~gen.endOfList THEN getNextPage(gen, ok).g ELSE gen
  IN [g |-> g1, ret |-> ~g1.endOfList]

\* Next clearing g.endOfList when it reports the end of the list
NextForgetsEnd(gen, ok) ==
  IF gen.endOfList
  THEN [g |-> [gen EXCEPT !.endOfList = FALSE], item |-> NoItem, err |-> "EndOfList"]
  ELSE LET r == getNextPage(gen, ok)
       IN IF r.err # "nil"
          THEN [g |-> r.g, item |-> NoItem, err |-> r.err]
          ELSE LET thisIndex == r.g.index
                   g1 == [r.g EXCEPT !.index = @ + 1]
                   g2 == [g1 EXCEPT !.endOfList =
                                      (g1.index >= Len(g1.items) /\ g1.lastPage)]
               IN IF thisIndex < Len(g2.items)
                  THEN [g |-> g2, item |-> g2.items[thisIndex + 1], err |-> "nil"]
                  ELSE [g |-> g2, item |-> NoItem, err |-> "panic"]

\* err = "panic" is the runtime panic of g.items[thisIndex] out of range
Next(gen, ok) ==
  IF gen.endOfList
  THEN [g |-> gen, item |-> NoItem, err |-> "EndOfList"]
  ELSE LET r == getNextPage(gen, ok)
       IN IF r.err # "nil"
          THEN [g |-> r.g, item |-> NoItem, err |-> r.err]
          ELSE LET thisIndex == r.g.index
                   g1 == [r.g EXCEPT !.index = @ + 1]
                   g2 == [g1 EXCEPT !.endOfList =
                                      (g1.index >= Len(g1.items) /\ g1.lastPage)]
               IN IF thisIndex < Len(g2.items)
                  THEN [g |-> g2, item |-> g2.items[thisIndex + 1], err |-> "nil"]
                  ELSE [g |-> g2, item |-> NoItem, err |-> "panic"]

\* Whether a call on gen invokes Retrieve
Fetches(gen) == ~gen.endOfList /\ NeedsFetch(gen)

\* The outcomes Retrieve may have for a call on gen
Outcomes(gen) ==
  IF Fetches(gen) /\ fails < MaxFails THEN {TRUE, FALSE} ELSE {TRUE}

Record(gen, ok) ==
  /\ fetched' = IF Fetches(gen) THEN Append(fetched, gen.nextPage) ELSE fetched
  /\ fails' = IF Fetches(gen) /\ ~ok THEN fails + 1 ELSE fails

GenInit ==
  /\ g = NewGenerator
  /\ \E sizes \in SizeSeqs : pages = PagesOf(sizes, 0)
  /\ fails = 0
  /\ fetched = <<>>
  /\ got = <<>>
  /\ hasNextRet = "none"
  /\ nextErr = "none"
  /\ gcalls = <<>>

\* The generator not in use
GenIdle ==
  /\ g = NewGenerator
  /\ pages = <<<<>>>>
  /\ fails = 0
  /\ fetched = <<>>
  /\ got = <<>>
  /\ hasNextRet = "none"
  /\ nextErr = "none"
  /\ gcalls = <<>>
  /\ gpc = "idle"

\* ------------------------------------------------------------------------
\* renovatepr.checkStatusChecks
\* ------------------------------------------------------------------------
\* A nil *int64 app id
NoApp == 0

Contexts == {"build", "build/1"}
AppIds == {1, 2}
\* Conclusions the platform may report; "pending" stands for every value
\* that is neither "success" nor "failed"
Conclusions == {"success", "failed", "pending"}

\* github.RequiredStatusCheck{Context, AppID}: the checks branch protection
\* may require, in the order it lists them
RequiredUniverse ==
  <<[context |-> "build", appId |-> NoApp], [context |-> "build", appId |-> 1],
    [context |-> "build", appId |-> 2], [context |-> "build/1", appId |-> NoApp]>>
\* github.RepoStatus{Context, State}
RepoStatusValues == [context : Contexts, state : Conclusions]
\* github.CheckRun{Name, App.ID, Conclusion, Status}: a completed run has a
\* conclusion, a run in progress has none
CheckRunValues ==
  {[name |-> n, appId |-> a, conclusion |-> c.conclusion, status |-> c.status] :
     n \in Contexts, a \in AppIds \cup {NoApp},
     c \in {[conclusion |-> "success", status |-> "completed"],
            [conclusion |-> "failed", status |-> "completed"],
            [conclusion |-> "", status |-> "pending"]}}

SeqsUpTo(S, n) == UNION {[1..k -> S] : k \in 0..n}

\* CheckKey leaving the app id out of the key
CheckKeyNameOnly(context, appId) == context

\* fmt.Sprintf("%s/%d", context, appId) when the app id is not nil
CheckKey(context, appId) ==
  IF appId # NoApp THEN context \o "/" \o ToString(appId) ELSE context

\* The keys seeded from a list of required checks
RequiredKeys(req) == {CheckKey(req[k].context, req[k].appId) : k \in 1..Len(req)}

\* m[k] = v of a Go map: adds the key when it is absent
MapSet(m, k, v) == [x \in DOMAIN m \cup {k} |-> IF x = k THEN v ELSE m[x]]

\* for _, c := range requiredChecks.Checks { checkResults[context] = "missing" }
RECURSIVE SeedRequired(_, _)
SeedRequired(m, req) ==
  IF req = <<>> THEN m
  ELSE SeedRequired(MapSet(m, CheckKey(Head(req).context, Head(req).appId), "missing"),
                    Tail(req))

\* checkStatuses: one runResult per commit status
checkStatuses(sts) ==
  [k \in 1..Len(sts) |-> [context |-> sts[k].context, conclusion |-> sts[k].state]]

\* checkCheckRuns: one runResult per check-run, the run's status standing in
\* for an empty conclusion
checkCheckRuns(runs) ==
  [k \in 1..Len(runs) |->
     [appId |-> runs[k].appId,
      context |-> runs[k].name,
      conclusion |-> IF runs[k].conclusion = "" THEN runs[k].status
                     ELSE runs[k].conclusion]]

\* for _, check := range statuses: the unconditional assignment of line 150,
\* then the guarded one of lines 151-153
RECURSIVE FoldStatuses(_, _)
FoldStatuses(m, results) ==
  IF results = <<>> THEN m
  ELSE LET check == Head(results)
           m1 == MapSet(m, check.context, check.conclusion)
           m2 == IF check.context \in DOMAIN m1
                 THEN MapSet(m1, check.context, check.conclusion) ELSE m1
       IN FoldStatuses(m2, Tail(results))

\* FoldCheckRuns overwriting only the keys no commit status has resolved
RECURSIVE FoldCheckRunsKeepsStatus(_, _)
FoldCheckRunsKeepsStatus(m, results) ==
  IF results = <<>> THEN m
  ELSE LET check == Head(results)
           context == CheckKey(check.context, check.appId)
           m1 == IF context \in DOMAIN m /\ m[context] = "missing"
                 THEN MapSet(m, context, check.conclusion) ELSE m
       IN FoldCheckRunsKeepsStatus(m1, Tail(results))

\* for _, check := range checks: only keys already present are overwritten
RECURSIVE FoldCheckRuns(_, _)
FoldCheckRuns(m, results) ==
  IF results = <<>> THEN m
  ELSE LET check == Head(results)
           context == CheckKey(check.context, check.appId)
           m1 == IF context \in DOMAIN m
                 THEN MapSet(m, context, check.conclusion) ELSE m
       IN FoldCheckRuns(m1, Tail(results))

\* for context, conclusion := range checkResults { switch conclusion ... }
RECURSIVE ScanResults(_, _, _)
ScanResults(m, keys, flags) ==
  IF keys = {} THEN flags
  ELSE LET k == CHOOSE x \in keys : TRUE
           f == CASE m[k] = "success" -> flags
                  [] m[k] = "failed" -> [flags EXCEPT !.failedCheck = TRUE]
                  [] OTHER -> [flags EXCEPT !.missingCheck = TRUE]
       IN ScanResults(m, keys \ {k}, f)

\* Classify with the two final tests swapped: missing is reported before failed
ClassifyMissingFirst(m) ==
  LET f == ScanResults(m, DOMAIN m, [failedCheck |-> FALSE, missingCheck |-> FALSE])
  IN IF f.missingCheck \/ Cardinality(DOMAIN m) = 0 THEN "ErrMissingCheck"
     ELSE IF f.failedCheck THEN "ErrFailedCheck"
     ELSE "nil"

\* lines 170-189: the error returned for a final map
Classify(m) ==
  LET f == ScanResults(m, DOMAIN m, [failedCheck |-> FALSE, missingCheck |-> FALSE])
  IN IF f.failedCheck THEN "ErrFailedCheck"
     ELSE IF f.missingCheck \/ Cardinality(DOMAIN m) = 0 THEN "ErrMissingCheck"
     ELSE "nil"

\* checkStatusChecks on the platform's answers; fail names the remote call
\* that returns an error, if any
checkStatusChecks(req, sts, runs, fail) ==
  IF fail = "required" THEN [err |-> "transport", checkResults |-> EmptyMap]
  ELSE LET m0 == SeedRequired(EmptyMap, req)
       IN IF fail = "statuses" THEN [err |-> "transport", checkResults |-> m0]
          ELSE LET m1 == FoldStatuses(m0, checkStatuses(sts))
               IN IF fail = "runs" THEN [err |-> "transport", checkResults |-> m1]
                  ELSE LET m2 == FoldCheckRuns(m1, checkCheckRuns(runs))
                       IN [err |-> Classify(m2), checkResults |-> m2]

FailPoints == {"none", "required", "statuses", "runs"}

\* The elements of u at the indices idx, in the order of u
RECURSIVE Pick(_, _)
Pick(u, idx) ==
  IF idx = {} THEN <<>>
  ELSE LET k == CHOOSE x \in idx : \A y \in idx : x <= y
       IN <<u[k]>> \o Pick(u, idx \ {k})

\* Lists of distinct required checks
RequiredLists ==
  {Pick(RequiredUniverse, idx) :
     idx \in {t \in SUBSET (1..Len(RequiredUniverse)) : Cardinality(t) <= MaxRequired}}

\* ------------------------------------------------------------------------
\* renovatepr.MergePRs and mergeStep
\* ------------------------------------------------------------------------
\* for i := 1; i < 100 && errCount < 10; i++
IterationCap == 100
ErrThreshold == 10

BotLogin == "renovate-bot"
Logins == {BotLogin, "octocat"}

\* a nil *github.PullRequest
NoPr == [number |-> 0, login |-> "", mergeable |-> FALSE]

\* The listings the platform may return: open pull requests in creation
\* order, whoever wrote them and whatever their mergeable flag
RECURSIVE ListingsFrom(_)
ListingsFrom(n) ==
  IF n > MaxPRs THEN {<<>>}
  ELSE LET rest == ListingsFrom(n + 1)
       IN rest \cup {<<[number |-> n, login |-> l, mergeable |-> m]>> \o r :
                       l \in Logins, m \in BOOLEAN, r \in rest}

Listings == ListingsFrom(1)

\* What listing the open pull requests may come to: a listing, or an error
\* from g.Next
ListAnswers ==
  {[err |-> "nil", prs |-> l] : l \in Listings}
    \cup {[err |-> "transport", prs |-> <<>>]}

\* if pr.GetUser().GetLogin() == "renovate-bot" { append }
RECURSIVE FilterRenovate(_)
FilterRenovate(prs) ==
  IF prs = <<>> THEN <<>>
  ELSE (IF Head(prs).login = BotLogin THEN <<Head(prs)>> ELSE <<>>)
       \o FilterRenovate(Tail(prs))

\* for _, pr := range renovatePrs { if pr.GetMergeable() { activePr = pr } }
RECURSIVE LastMergeable(_, _)
LastMergeable(prs, cur) ==
  IF prs = <<>> THEN cur
  ELSE LastMergeable(Tail(prs), IF Head(prs).mergeable THEN Head(prs) ELSE cur)

\* chooseActivePr keeping the first mergeable pull request instead of the last
chooseFirstMergeable(prs) ==
  LET found == LastMergeable(
                 [k \in 1..Len(prs) |-> prs[Len(prs) + 1 - k]], NoPr)
  IN IF found = NoPr THEN prs[1] ELSE found

chooseActivePr(prs) ==
  LET found == LastMergeable(prs, NoPr)
  IN IF found = NoPr THEN prs[1] ELSE found

\* approveWorkflowRuns by what the platform answers:
\*   "listErr"     listing the workflow runs fails
\*   "none"        no listed run is for the head commit
\*   "approved"    a run for the head commit is approved
\*   "approveErr"  the approval request fails
GateOutcomes == {"listErr", "none", "approved", "approveErr"}

approveWorkflowRuns(o) ==
  CASE o = "listErr" -> [calls |-> <<"ListWorkflowRuns">>, err |-> "transport"]
    [] o = "none" -> [calls |-> <<"ListWorkflowRuns">>, err |-> "nil"]
    [] o = "approved" ->
         [calls |-> <<"ListWorkflowRuns", "ApproveWorkflowRun">>, err |-> "nil"]
    [] o = "approveErr" ->
         [calls |-> <<"ListWorkflowRuns", "ApproveWorkflowRun">>, err |-> "transport"]

\* The remote calls checkStatusChecks makes when the call named fail fails
CheckCalls(fail) ==
  CASE fail = "required" -> <<"GetRequiredStatusChecks">>
    [] fail = "statuses" -> <<"GetRequiredStatusChecks", "GetCombinedStatus">>
    [] OTHER -> <<"GetRequiredStatusChecks", "GetCombinedStatus", "ListCheckRuns">>

\* What checkStatusChecks can return on the bounded platform answers
CheckReturn(r, st, cr, f) ==
  LET res == checkStatusChecks(r, st, cr, f)
  IN [failAt |-> f, err |-> res.err,
      requiredOk |-> \A k \in RequiredKeys(r) :
                       /\ k \in DOMAIN res.checkResults
                       /\ res.checkResults[k] = "success"]

CheckReturns ==
  {CheckReturn(r, st, cr, f) :
     f \in FailPoints, r \in RequiredLists,
     st \in SeqsUpTo(RepoStatusValues, MaxStatuses),
     cr \in SeqsUpTo(CheckRunValues, MaxRuns)}

\* approvePr by what the platform answers:
\*   "listErr"    listing the reviews fails
\*   "approved"   a review in state APPROVED exists
\*   "createErr"  CreateReview fails
\*   "submitted"  CreateReview and SubmitReview succeed
\*   "submitErr"  CreateReview succeeds, SubmitReview fails; its error is not
\*                assigned, so err is still CreateReview's nil
ReviewOutcomes == {"listErr", "approved", "createErr", "submitted", "submitErr"}

approvePr(o) ==
  CASE o = "listErr" -> [calls |-> <<"ListReviews">>, err |-> "transport"]
    [] o = "approved" -> [calls |-> <<"ListReviews">>, err |-> "nil"]
    [] o = "createErr" ->
         [calls |-> <<"ListReviews", "CreateReview">>, err |-> "transport"]
    [] o \in {"submitted", "submitErr"} ->
         [calls |-> <<"ListReviews", "CreateReview", "SubmitReview">>, err |-> "nil"]

\* mergePr by what the platform answers:
\*   "getErr"         re-fetching the pull request fails
\*   "notRebaseable"  the refreshed pull request is not rebaseable
\*   "merged"         Merge answers merged = true
\*   "notMerged"      Merge answers merged = false
\*   "mergeErr"       Merge returns no result and an error
\*   "noResult"       Merge returns no result and no error
MergeOutcomes ==
  {"getErr", "notRebaseable", "merged", "notMerged", "mergeErr", "noResult"}

mergePr(o) ==
  CASE o = "getErr" -> [calls |-> <<"GetPullRequest">>, err |-> "transport"]
    [] o = "notRebaseable" ->
         [calls |-> <<"GetPullRequest">>, err |-> "not rebaseable"]
    [] o = "merged" -> [calls |-> <<"GetPullRequest", "Merge">>, err |-> "nil"]
    [] o = "notMerged" ->
         [calls |-> <<"GetPullRequest", "Merge">>, err |-> "not merged"]
    [] o = "mergeErr" ->
         [calls |-> <<"GetPullRequest", "Merge">>, err |-> "transport"]
    [] o = "noResult" -> [calls |-> <<"GetPullRequest", "Merge">>, err |-> "nil"]

\* The states a review may be in on the platform
ReviewStates == {"APPROVED", "COMMENTED", "PENDING"}

\* What the platform answers to the remote calls of one approvePr: the error
\* of the review listing, of CreateReview and of SubmitReview, and the state
\* it gives the review CreateReview creates (PENDING until submitted, or
\* APPROVED at once because the request names the APPROVE event)
ReviewAnswers ==
  [list : {"nil", "transport"}, create : {"nil", "transport"},
   created : {"PENDING", "APPROVED"}, submit : {"nil", "transport"}]

RemoteCall(name, e) == [name |-> name, err |-> e]

\* approvePr on the reviews revs of the pull request; the error of
\* SubmitReview is not assigned (line 226), so the test of line 232 reads the
\* nil error of CreateReview
approvePrOn(revs, ans) ==
  IF ans.list # "nil"
  THEN [calls |-> <<RemoteCall("ListReviews", ans.list)>>,
        err |-> ans.list, reviews |-> revs]
  ELSE IF \E k \in 1..Len(revs) : revs[k] = "APPROVED"
  THEN [calls |-> <<RemoteCall("ListReviews", "nil")>>,
        err |-> "nil", reviews |-> revs]
  ELSE IF ans.create # "nil"
  THEN [calls |-> <<RemoteCall("ListReviews", "nil"),
                    RemoteCall("CreateReview", ans.create)>>,
        err |-> ans.create, reviews |-> revs]
  ELSE LET errOfCreate == ans.create
           created == Append(revs, ans.created)
           submitted == IF ans.submit = "nil"
                        THEN [created EXCEPT ![Len(created)] = "APPROVED"]
                        ELSE created
       IN [calls |-> <<RemoteCall("ListReviews", "nil"),
                       RemoteCall("CreateReview", "nil"),
                       RemoteCall("SubmitReview", ans.submit)>>,
           err |-> errOfCreate, reviews |-> submitted]

\* The pull request mergePr is given: what the step selected earlier
SelectedPrs == [rebaseable : BOOLEAN]

\* What the platform answers to the remote calls of one mergePr: the error of
\* the re-fetch, the rebaseable flag of the refreshed pull request, the merge
\* result ("none": a nil result) and the error of Merge
MergeAnswers ==
  [get : {"nil", "transport"}, rebaseable : BOOLEAN,
   result : {"none", "merged", "notMerged"}, mergeErr : {"nil", "transport"}]

\* lines 378-393: the error mergePr returns for an answer of Merge
MergeReturn(ans) ==
  IF ans.result # "none"
  THEN (IF ans.result = "merged" THEN "nil" ELSE "not merged")
  ELSE IF ans.mergeErr # "nil" THEN ans.mergeErr
  ELSE "nil"

\* mergePrOn testing the rebaseable flag of the pull request it was given
\* instead of the refreshed one
mergePrTrustsSelection(pr, ans) ==
  IF ans.get # "nil"
  THEN [calls |-> <<"GetPullRequest">>, err |-> ans.get]
  ELSE IF ~pr.rebaseable
  THEN [calls |-> <<"GetPullRequest">>, err |-> "not rebaseable"]
  ELSE [calls |-> <<"GetPullRequest", "Merge">>, err |-> MergeReturn(ans)]

\* mergePr on the selected pull request pr
mergePrOn(pr, ans) ==
  IF ans.get # "nil"
  THEN [calls |-> <<"GetPullRequest">>, err |-> ans.get]
  ELSE IF ~ans.rebaseable
  THEN [calls |-> <<"GetPullRequest">>, err |-> "not rebaseable"]
  ELSE [calls |-> <<"GetPullRequest", "Merge">>, err |-> MergeReturn(ans)]

\* The head commit of the selected pull request, and any other commit
HeadShas == {"head", "other"}

\* What may go wrong in one invocation of approveWorkflowRuns: nothing, the
\* n-th call of Retrieve, building the request of run n, or sending it
GateFailures(n) ==
  {[kind |-> "none", at |-> 0]}
    \cup [kind : {"Retrieve"}, at : 1..(MaxPages + 1)]
    \cup [kind : {"NewRequest", "Do"}, at : 1..n]

\* The loop of approveWorkflowRuns over the generator of workflow runs: gen
\* is the generator, nfetch the number of Retrieve calls made so far, reqs
\* the runs an approval request was sent for.  err = "panic" is the runtime
\* panic of Next.
RECURSIVE approveRuns(_, _, _, _)
approveRuns(gen, nfetch, reqs, fail) ==
  LET okH == ~(fail.kind = "Retrieve" /\ fail.at = nfetch + 1)
      h == HasNext(gen, okH)
      n1 == IF Fetches(gen) THEN nfetch + 1 ELSE nfetch
  IN IF ~h.ret THEN [requests |-> reqs, err |-> "nil"]
     ELSE LET okN == ~(fail.kind = "Retrieve" /\ fail.at = n1 + 1)
              r == Next(h.g, okN)
              n2 == IF Fetches(h.g) THEN n1 + 1 ELSE n1
          IN IF r.err # "nil" THEN [requests |-> reqs, err |-> r.err]
             ELSE IF headSHA[r.item] # "head"
             THEN approveRuns(r.g, n2, reqs, fail)
             ELSE IF fail.kind = "NewRequest" /\ fail.at = r.item
             THEN [requests |-> reqs, err |-> "url"]
             ELSE IF fail.kind = "Do" /\ fail.at = r.item
             THEN [requests |-> Append(reqs, r.item), err |-> "Can't approve workflow"]
             ELSE approveRuns(r.g, n2, Append(reqs, r.item), fail)

\* approveWorkflowRuns on the listing `pages` of action_required runs of the
\* pull request's branch
approveWorkflowRunsOn(fail) == approveRuns(NewGenerator, 0, <<>>, fail)

LoopIdle ==
  /\ pc = "idle"
  /\ i = 1
  /\ errCount = 0
  /\ hasMore = FALSE
  /\ err = "nil"
  /\ renovatePrs = <<>>
  /\ activePr = NoPr
  /\ calls = <<>>
  /\ steps = 0
  /\ verdict = "none"
  /\ requiredOk = FALSE
  /\ result = "none"

PlatformIdle == total = 0 /\ supply = 0

\* approvePr and mergePr not called on their own
UnitIdle ==
  /\ reviews = <<>>
  /\ approvals = <<>>
  /\ merges = <<>>
  /\ headSHA = <<>>
  /\ gates = <<>>

\* MergePRs entered: var err error; var hasMore bool; errCount := 0; i := 1
LoopInit ==
  /\ pc = "for"
  /\ i = 1
  /\ errCount = 0
  /\ hasMore = FALSE
  /\ err = "nil"
  /\ renovatePrs = <<>>
  /\ activePr = NoPr
  /\ calls = <<>>
  /\ steps = 0
  /\ verdict = "none"
  /\ requiredOk = FALSE
  /\ result = "none"

\* mergeStep returns (more, e) to MergePRs
StepReturns(more, e) ==
  /\ hasMore' = more
  /\ err' = e
  /\ renovatePrs' = <<>>
  /\ activePr' = NoPr
  /\ pc' = "stepReturned"

\* ForTest with the iteration cap left out of the loop condition
ForTestNoCap ==
  /\ pc = "for"
  /\ IF errCount < ErrThreshold
     THEN /\ pc' = "mergeStep"
          /\ steps' = steps + 1
          /\ calls' = <<>>
          /\ verdict' = "none"
          /\ requiredOk' = FALSE
          /\ UNCHANGED result
     ELSE /\ pc' = "returned"
          /\ result' = err
          /\ UNCHANGED <<steps, calls, verdict, requiredOk>>
  /\ UNCHANGED <<i, errCount, hasMore, err, renovatePrs, activePr>>
  /\ UNCHANGED <<genVars, chkVars, platformVars, unitVars>>

\* The loop condition i < 100 && errCount < 10; a true condition calls mergeStep
ForTest ==
  /\ pc = "for"
  /\ IF i < IterationCap /\ errCount < ErrThreshold
     THEN /\ pc' = "mergeStep"
          /\ steps' = steps + 1
          /\ calls' = <<>>
          /\ verdict' = "none"
          /\ requiredOk' = FALSE
          /\ UNCHANGED result
     ELSE /\ pc' = "returned"
          /\ result' = err
          /\ UNCHANGED <<steps, calls, verdict, requiredOk>>
  /\ UNCHANGED <<i, errCount, hasMore, err, renovatePrs, activePr>>
  /\ UNCHANGED <<genVars, chkVars, platformVars, unitVars>>

\* ListPrs asking for another step when the listing fails
ListPrsRetriesListing(answers) ==
  /\ pc = "mergeStep"
  /\ calls' = Append(calls, "ListPullRequests")
  /\ \E l \in answers :
       IF l.err # "nil"
       THEN StepReturns(TRUE, l.err)
       ELSE LET bots == FilterRenovate(l.prs)
            IN IF Len(bots) = 0
               THEN StepReturns(FALSE, "nil")
               ELSE /\ renovatePrs' = bots
                    /\ activePr' = chooseActivePr(bots)
                    /\ pc' = "approveWorkflowRuns"
                    /\ UNCHANGED <<hasMore, err>>
  /\ UNCHANGED <<i, errCount, steps, verdict, requiredOk, result>>
  /\ UNCHANGED <<genVars, chkVars, platformVars, unitVars>>

\* ListPrs keeping every open pull request, whoever wrote it
ListPrsNoFilter(answers) ==
  /\ pc = "mergeStep"
  /\ calls' = Append(calls, "ListPullRequests")
  /\ \E l \in answers :
       IF l.err # "nil"
       THEN StepReturns(FALSE, l.err)
       ELSE LET bots == l.prs
            IN IF Len(bots) = 0
               THEN StepReturns(FALSE, "nil")
               ELSE /\ renovatePrs' = bots
                    /\ activePr' = chooseActivePr(bots)
                    /\ pc' = "approveWorkflowRuns"
                    /\ UNCHANGED <<hasMore, err>>
  /\ UNCHANGED <<i, errCount, steps, verdict, requiredOk, result>>
  /\ UNCHANGED <<genVars, chkVars, platformVars, unitVars>>

\* mergeStep lines 66-99: list the open pull requests, keep the bot's, choose
\* the active one
ListPrs(answers) ==
  /\ pc = "mergeStep"
  /\ calls' = Append(calls, "ListPullRequests")
  /\ \E l \in answers :
       IF l.err # "nil"
       THEN StepReturns(FALSE, l.err)
       ELSE LET bots == FilterRenovate(l.prs)
            IN IF Len(bots) = 0
               THEN StepReturns(FALSE, "nil")
               ELSE /\ renovatePrs' = bots
                    /\ activePr' = chooseActivePr(bots)
                    /\ pc' = "approveWorkflowRuns"
                    /\ UNCHANGED <<hasMore, err>>
  /\ UNCHANGED <<i, errCount, steps, verdict, requiredOk, result>>
  /\ UNCHANGED <<genVars, chkVars, platformVars, unitVars>>

\* mergeStep lines 101-105
ApproveRuns(outcomes) ==
  /\ pc = "approveWorkflowRuns"
  /\ \E o \in outcomes :
       LET r == approveWorkflowRuns(o)
       IN /\ calls' = calls \o r.calls
          /\ IF r.err # "nil"
             THEN StepReturns(TRUE, r.err)
             ELSE /\ pc' = "checkStatusChecks"
                  /\ UNCHANGED <<hasMore, err, renovatePrs, activePr>>
  /\ UNCHANGED <<i, errCount, steps, verdict, requiredOk, result>>
  /\ UNCHANGED <<genVars, chkVars, platformVars, unitVars>>

\* CheckStatuses going on to the approval when the verdict is missing
CheckStatusesPastMissing(returns) ==
  /\ pc = "checkStatusChecks"
  /\ \E r \in returns :
       /\ calls' = calls \o CheckCalls(r.failAt)
       /\ verdict' = r.err
       /\ requiredOk' = r.requiredOk
       /\ IF r.err \notin {"nil", "ErrMissingCheck"}
          THEN StepReturns(FALSE, r.err)
          ELSE /\ pc' = "approvePr"
               /\ UNCHANGED <<hasMore, err, renovatePrs, activePr>>
  /\ UNCHANGED <<i, errCount, steps, result>>
  /\ UNCHANGED <<genVars, chkVars, platformVars, unitVars>>

\* CheckStatuses asking for another step whatever the error is
CheckStatusesRetryAll(returns) ==
  /\ pc = "checkStatusChecks"
  /\ \E r \in returns :
       /\ calls' = calls \o CheckCalls(r.failAt)
       /\ verdict' = r.err
       /\ requiredOk' = r.requiredOk
       /\ IF r.err # "nil"
          THEN StepReturns(TRUE, r.err)
          ELSE /\ pc' = "approvePr"
               /\ UNCHANGED <<hasMore, err, renovatePrs, activePr>>
  /\ UNCHANGED <<i, errCount, steps, result>>
  /\ UNCHANGED <<genVars, chkVars, platformVars, unitVars>>

\* CheckStatuses stopping the run when the verdict is missing
CheckStatusesMissingFatal(returns) ==
  /\ pc = "checkStatusChecks"
  /\ \E r \in returns :
       /\ calls' = calls \o CheckCalls(r.failAt)
       /\ verdict' = r.err
       /\ requiredOk' = r.requiredOk
       /\ IF r.err # "nil"
          THEN StepReturns(FALSE, r.err)
          ELSE /\ pc' = "approvePr"
               /\ UNCHANGED <<hasMore, err, renovatePrs, activePr>>
  /\ UNCHANGED <<i, errCount, steps, result>>
  /\ UNCHANGED <<genVars, chkVars, platformVars, unitVars>>

\* mergeStep lines 107-114
CheckStatuses(returns) ==
  /\ pc = "checkStatusChecks"
  /\ \E r \in returns :
       /\ calls' = calls \o CheckCalls(r.failAt)
       /\ verdict' = r.err
       /\ requiredOk' = r.requiredOk
       /\ IF r.err = "ErrMissingCheck"
          THEN StepReturns(TRUE, r.err)
          ELSE IF r.err # "nil"
          THEN StepReturns(FALSE, r.err)
          ELSE /\ pc' = "approvePr"
               /\ UNCHANGED <<hasMore, err, renovatePrs, activePr>>
  /\ UNCHANGED <<i, errCount, steps, result>>
  /\ UNCHANGED <<genVars, chkVars, platformVars, unitVars>>

\* ApprovePr going on to the merge whatever approvePr returned
ApprovePrIgnoresError(outcomes) ==
  /\ pc = "approvePr"
  /\ \E o \in outcomes :
       LET r == approvePr(o)
       IN /\ calls' = calls \o r.calls
          /\ pc' = "mergePr"
          /\ UNCHANGED <<hasMore, err, renovatePrs, activePr>>
  /\ UNCHANGED <<i, errCount, steps, verdict, requiredOk, result>>
  /\ UNCHANGED <<genVars, chkVars, platformVars, unitVars>>

\* mergeStep lines 116-120
ApprovePr(outcomes) ==
  /\ pc = "approvePr"
  /\ \E o \in outcomes :
       LET r == approvePr(o)
       IN /\ calls' = calls \o r.calls
          /\ IF r.err # "nil"
             THEN StepReturns(TRUE, r.err)
             ELSE /\ pc' = "mergePr"
                  /\ UNCHANGED <<hasMore, err, renovatePrs, activePr>>
  /\ UNCHANGED <<i, errCount, steps, verdict, requiredOk, result>>
  /\ UNCHANGED <<genVars, chkVars, platformVars, unitVars>>

\* MergePr telling MergePRs that there is no more work after a merge attempt
MergePrStops(outcomes) ==
  /\ pc = "mergePr"
  /\ \E o \in outcomes :
       LET r == mergePr(o)
       IN /\ calls' = calls \o r.calls
          /\ StepReturns(FALSE, r.err)
          /\ supply' = IF o = "merged" /\ supply > 0 THEN supply - 1 ELSE supply
  /\ UNCHANGED <<i, errCount, steps, verdict, requiredOk, result, total>>
  /\ UNCHANGED <<genVars, chkVars, unitVars>>

\* mergeStep line 122; a completed merge closes a pull request of the supply
MergePr(outcomes) ==
  /\ pc = "mergePr"
  /\ \E o \in outcomes :
       LET r == mergePr(o)
       IN /\ calls' = calls \o r.calls
          /\ StepReturns(TRUE, r.err)
          /\ supply' = IF o = "merged" /\ supply > 0 THEN supply - 1 ELSE supply
  /\ UNCHANGED <<i, errCount, steps, verdict, requiredOk, result, total>>
  /\ UNCHANGED <<genVars, chkVars, unitVars>>

\* AfterStep sleeping after a successful merge too
AfterStepAlwaysSleeps ==
  /\ pc = "stepReturned"
  /\ IF ~hasMore
     THEN /\ pc' = "returned"
          /\ result' = err
          /\ UNCHANGED <<i, errCount>>
     ELSE IF err # "nil"
     THEN /\ errCount' = errCount + 1
          /\ pc' = "sleep"
          /\ UNCHANGED <<i, result>>
     ELSE /\ errCount' = 0
          /\ pc' = "sleep"
          /\ UNCHANGED <<i, result>>
  /\ UNCHANGED <<hasMore, err, renovatePrs, activePr, calls, steps, verdict, requiredOk>>
  /\ UNCHANGED <<genVars, chkVars, platformVars, unitVars>>

\* AfterStep without the reset of errCount after a successful merge
AfterStepNoReset ==
  /\ pc = "stepReturned"
  /\ IF ~hasMore
     THEN /\ pc' = "returned"
          /\ result' = err
          /\ UNCHANGED <<i, errCount>>
     ELSE IF err # "nil"
     THEN /\ errCount' = errCount + 1
          /\ pc' = "sleep"
          /\ UNCHANGED <<i, result>>
     ELSE /\ i' = i + 1
          /\ pc' = "for"
          /\ UNCHANGED <<errCount, result>>
  /\ UNCHANGED <<hasMore, err, renovatePrs, activePr, calls, steps, verdict, requiredOk>>
  /\ UNCHANGED <<genVars, chkVars, platformVars, unitVars>>

\* AfterStep returning nil instead of err after the break
AfterStepReturnsNil ==
  /\ pc = "stepReturned"
  /\ IF ~hasMore
     THEN /\ pc' = "returned"
          /\ result' = "nil"
          /\ UNCHANGED <<i, errCount>>
     ELSE IF err # "nil"
     THEN /\ errCount' = errCount + 1
          /\ pc' = "sleep"
          /\ UNCHANGED <<i, result>>
     ELSE /\ errCount' = 0
          /\ i' = i + 1
          /\ pc' = "for"
          /\ UNCHANGED result
  /\ UNCHANGED <<hasMore, err, renovatePrs, activePr, calls, steps, verdict, requiredOk>>
  /\ UNCHANGED <<genVars, chkVars, platformVars, unitVars>>

\* MergePRs lines 44-56, with the i++ of the loop when no sleep comes first
AfterStep ==
  /\ pc = "stepReturned"
  /\ IF ~hasMore
     THEN /\ pc' = "returned"
          /\ result' = err
          /\ UNCHANGED <<i, errCount>>
     ELSE IF err # "nil"
     THEN /\ errCount' = errCount + 1
          /\ pc' = "sleep"
          /\ UNCHANGED <<i, result>>
     ELSE /\ errCount' = 0
          /\ i' = i + 1
          /\ pc' = "for"
          /\ UNCHANGED result
  /\ UNCHANGED <<hasMore, err, renovatePrs, activePr, calls, steps, verdict, requiredOk>>
  /\ UNCHANGED <<genVars, chkVars, platformVars, unitVars>>

\* time.Sleep(2 * time.Minute), then i++
Sleep ==
  /\ pc = "sleep"
  /\ calls' = Append(calls, "Sleep")
  /\ i' = i + 1
  /\ pc' = "for"
  /\ UNCHANGED <<errCount, hasMore, err, renovatePrs, activePr, steps, verdict,
                 requiredOk, result>>
  /\ UNCHANGED <<genVars, chkVars, platformVars, unitVars>>

\* ------------------------------------------------------------------------
\* The drain loop  `for g.HasNext() { item, err := g.Next(); ... }`
\* followed by one more Next and one more HasNext
\* ------------------------------------------------------------------------
DrainInit ==
  GenInit /\ gpc = "loop" /\ ChkIdle /\ LoopIdle /\ PlatformIdle /\ UnitIdle

DrainHasNext ==
  /\ gpc = "loop"
  /\ \E ok \in Outcomes(g) :
       LET r == HasNext(g, ok)
       IN /\ g' = r.g
          /\ hasNextRet' = r.ret
          /\ gpc' = IF r.ret THEN "body" ELSE "afterNext"
          /\ Record(g, ok)
  /\ UNCHANGED <<pages, got, nextErr, gcalls>>

DrainNext ==
  /\ gpc = "body"
  /\ \E ok \in Outcomes(g) :
       LET r == Next(g, ok)
       IN /\ g' = r.g
          /\ nextErr' = r.err
          /\ got' = IF r.err = "nil" THEN Append(got, r.item) ELSE got
          /\ gpc' = CASE r.err = "nil" -> "loop"
                      [] r.err = "panic" -> "panic"
                      [] OTHER -> "failed"
          /\ Record(g, ok)
  /\ UNCHANGED <<pages, hasNextRet, gcalls>>

AfterNext ==
  /\ gpc = "afterNext"
  /\ \E ok \in Outcomes(g) :
       LET r == Next(g, ok)
       IN /\ g' = r.g
          /\ nextErr' = r.err
          /\ got' = IF r.err = "nil" THEN Append(got, r.item) ELSE got
          /\ gpc' = "afterHasNext"
          /\ Record(g, ok)
  /\ UNCHANGED <<pages, hasNextRet, gcalls>>

AfterHasNext ==
  /\ gpc = "afterHasNext"
  /\ \E ok \in Outcomes(g) :
       LET r == HasNext(g, ok)
       IN /\ g' = r.g
          /\ hasNextRet' = r.ret
          /\ gpc' = "done"
          /\ Record(g, ok)
  /\ UNCHANGED <<pages, got, nextErr, gcalls>>

DrainNextStep ==
  (DrainHasNext \/ DrainNext \/ AfterNext \/ AfterHasNext)
  /\ UNCHANGED <<chkVars, loopVars, platformVars, unitVars>>

SpecDrain == DrainInit /\ [][DrainNextStep]_vars

\* ------------------------------------------------------------------------
\* HasNext and Next called in any order on a fresh generator
\* ------------------------------------------------------------------------
FreeInit ==
  /\ GenInit
  /\ gpc = "free"
  /\ ChkIdle
  /\ LoopIdle
  /\ PlatformIdle
  /\ UnitIdle

\* What one call did: whether it invoked Retrieve, for which page and with
\* what outcome, what it returned, and the generator after it
GenCall(op, gen, ok, ret, item, e, after) ==
  [op |-> op, fetch |-> Fetches(gen), page |-> gen.nextPage, ok |-> ok,
   ret |-> ret, item |-> item, err |-> e, before |-> gen, after |-> after]

CallHasNext ==
  /\ gpc = "free"
  /\ Len(gcalls) < MaxOps
  /\ \E ok \in Outcomes(g) :
       LET r == HasNext(g, ok)
       IN /\ g' = r.g
          /\ hasNextRet' = r.ret
          /\ gcalls' = Append(gcalls,
                              GenCall("HasNext", g, ok, r.ret, NoItem, "nil", r.g))
          /\ Record(g, ok)
  /\ UNCHANGED <<pages, got, nextErr, gpc>>

CallNext ==
  /\ gpc = "free"
  /\ Len(gcalls) < MaxOps
  /\ \E ok \in Outcomes(g) :
       LET r == Next(g, ok)
       IN /\ g' = r.g
          /\ nextErr' = r.err
          /\ got' = IF r.err = "nil" THEN Append(got, r.item) ELSE got
          /\ gpc' = IF r.err = "panic" THEN "panic" ELSE "free"
          /\ gcalls' = Append(gcalls,
                              GenCall("Next", g, ok, FALSE, r.item, r.err, r.g))
          /\ Record(g, ok)
  /\ UNCHANGED <<pages, hasNextRet>>

FreeNext ==
  (CallHasNext \/ CallNext)
  /\ UNCHANGED <<chkVars, loopVars, platformVars, unitVars>>

SpecGen == FreeInit /\ [][FreeNext]_vars

\* ------------------------------------------------------------------------
\* One call of checkStatusChecks on any platform answers
\* ------------------------------------------------------------------------
ChkInit ==
  /\ requiredChecks \in RequiredLists
  /\ repoStatuses \in SeqsUpTo(RepoStatusValues, MaxStatuses)
  /\ checkRuns \in SeqsUpTo(CheckRunValues, MaxRuns)
  /\ failAt = "none"
  /\ checkResults = EmptyMap
  /\ chkErr = "none"

\* One call of checkStatusChecks
CheckStatusChecks ==
  /\ chkErr = "none"
  /\ \E fail \in FailPoints :
       LET r == checkStatusChecks(requiredChecks, repoStatuses, checkRuns, fail)
       IN /\ failAt' = fail
          /\ checkResults' = r.checkResults
          /\ chkErr' = r.err
  /\ UNCHANGED <<requiredChecks, repoStatuses, checkRuns>>

SpecChkInit == ChkInit /\ GenIdle /\ LoopIdle /\ PlatformIdle /\ UnitIdle

SpecChkNext == CheckStatusChecks /\ UNCHANGED <<genVars, loopVars, platformVars,
                                          unitVars>>

SpecChk == SpecChkInit /\ [][SpecChkNext]_vars

\* ------------------------------------------------------------------------
\* MergePRs against a platform that may answer anything
\* ------------------------------------------------------------------------
Init == LoopInit /\ PlatformIdle /\ ChkIdle /\ GenIdle /\ UnitIdle

MergePRsNext ==
  \/ ForTest
  \/ ListPrs(ListAnswers)
  \/ ApproveRuns(GateOutcomes)
  \/ CheckStatuses(CheckReturns)
  \/ ApprovePr(ReviewOutcomes)
  \/ MergePr(MergeOutcomes)
  \/ AfterStep
  \/ Sleep

Spec == Init /\ [][MergePRsNext]_vars

\* ------------------------------------------------------------------------
\* MergePRs against a cooperative platform: a finite supply of bot pull
\* requests, every remote call succeeds, every verdict is ready, every merge
\* is completed and closes the pull request
\* ------------------------------------------------------------------------
SupplyListing ==
  [err |-> "nil",
   prs |-> [k \in 1..supply |->
              [number |-> k, login |-> BotLogin, mergeable |-> TRUE]]]

ReadyReturn == [failAt |-> "none", err |-> "nil", requiredOk |-> TRUE]

SupplyInit ==
  /\ LoopInit
  /\ total \in 0..MaxSupply
  /\ supply = total
  /\ ChkIdle
  /\ GenIdle
  /\ UnitIdle

SupplyNext ==
  \/ ForTest
  \/ ListPrs({SupplyListing})
  \/ ApproveRuns({"none", "approved"})
  \/ CheckStatuses({ReadyReturn})
  \/ ApprovePr({"approved", "submitted"})
  \/ MergePr({"merged"})
  \/ AfterStep

SpecSupply == SupplyInit /\ [][SupplyNext]_vars

\* ------------------------------------------------------------------------
\* Calls of approvePr on one pull request, whatever the platform answers
\* ------------------------------------------------------------------------
ApproveInit ==
  /\ reviews \in SeqsUpTo(ReviewStates, MaxReviews)
  /\ approvals = <<>>
  /\ merges = <<>>
  /\ headSHA = <<>>
  /\ gates = <<>>
  /\ GenIdle
  /\ ChkIdle
  /\ LoopIdle
  /\ PlatformIdle

\* One call of approvePr
ApprovePrCall ==
  /\ Len(approvals) < MaxCalls
  /\ \E ans \in ReviewAnswers :
       LET r == approvePrOn(reviews, ans)
       IN /\ reviews' = r.reviews
          /\ approvals' = Append(approvals,
                                 [before |-> reviews, calls |-> r.calls,
                                  err |-> r.err, after |-> r.reviews])
  /\ UNCHANGED <<merges, headSHA, gates, genVars, chkVars, loopVars, platformVars>>

SpecApprove == ApproveInit /\ [][ApprovePrCall]_vars

\* ------------------------------------------------------------------------
\* Calls of mergePr, whatever the platform answers
\* ------------------------------------------------------------------------
MergeInit ==
  /\ reviews = <<>>
  /\ approvals = <<>>
  /\ merges = <<>>
  /\ headSHA = <<>>
  /\ gates = <<>>
  /\ GenIdle
  /\ ChkIdle
  /\ LoopIdle
  /\ PlatformIdle

\* One call of mergePr
MergePrCall ==
  /\ Len(merges) < MaxCalls
  /\ \E pr \in SelectedPrs, ans \in MergeAnswers :
       LET r == mergePrOn(pr, ans)
       IN merges' = Append(merges, [selected |-> pr, answer |-> ans,
                                    calls |-> r.calls, err |-> r.err])
  /\ UNCHANGED <<reviews, approvals, headSHA, gates, genVars, chkVars, loopVars, platformVars>>

SpecMerge == MergeInit /\ [][MergePrCall]_vars

\* ------------------------------------------------------------------------
\* Calls of approveWorkflowRuns on a listing of workflow runs
\* ------------------------------------------------------------------------
GateInit ==
  /\ g = NewGenerator
  /\ \E sizes \in SizeSeqs :
       /\ pages = PagesOf(sizes, 0)
       /\ headSHA \in [1..Len(Flatten(PagesOf(sizes, 0))) -> HeadShas]
  /\ fails = 0
  /\ fetched = <<>>
  /\ got = <<>>
  /\ hasNextRet = "none"
  /\ nextErr = "none"
  /\ gcalls = <<>>
  /\ gpc = "idle"
  /\ gates = <<>>
  /\ reviews = <<>>
  /\ approvals = <<>>
  /\ merges = <<>>
  /\ ChkIdle
  /\ LoopIdle
  /\ PlatformIdle

\* One invocation of approveWorkflowRuns
ApproveWorkflowRunsCall ==
  /\ Len(gates) < 1
  /\ \E fail \in GateFailures(Len(headSHA)) :
       LET r == approveWorkflowRunsOn(fail)
       IN gates' = Append(gates, [fail |-> fail, requests |-> r.requests,
                                  err |-> r.err])
  /\ UNCHANGED <<reviews, approvals, merges, headSHA, genVars, chkVars, loopVars,
                 platformVars>>

SpecGate == GateInit /\ [][ApproveWorkflowRunsCall]_vars

\* ------------------------------------------------------------------------
\* Properties of MergePRs
\* ------------------------------------------------------------------------
Called(name) == \E k \in 1..Len(calls) : calls[k] = name

Count(name) == Cardinality({k \in 1..Len(calls) : calls[k] = name})

\* mergeStep has returned (continue, error): the loop will count a failure
\* and sleep (WaitingRetry)
WaitingRetry == pc = "stepReturned" /\ hasMore /\ err # "nil"

\* mergeStep has returned (continue, nil): the merge went through
MergeSucceeded == pc = "stepReturned" /\ hasMore /\ err = "nil"

\* C2: in every step, a review is created or submitted and the merge call is
\* issued only if the check verdict computed earlier in that step was ready,
\* and then every required check had resolved to success; a verdict of
\* missing or failed never leads to a review or a merge call in that step.
C2_MergeOnlyWhenReady ==
  (\/ pc \in {"approvePr", "mergePr"}
   \/ Called("CreateReview") \/ Called("SubmitReview") \/ Called("Merge"))
    => (verdict = "nil" /\ requiredOk)

\* C2 witness: the merge call was issued in a step whose verdict was ready
C2_MergeCalled == Called("Merge") /\ verdict = "nil"

\* A measure of the work MergePRs still has: the iterations left, and the
\* position inside the current one
Rank ==
  CASE pc = "for" -> 8
    [] pc = "mergeStep" -> 7
    [] pc = "approveWorkflowRuns" -> 6
    [] pc = "checkStatusChecks" -> 5
    [] pc = "approvePr" -> 4
    [] pc = "mergePr" -> 3
    [] pc = "stepReturned" -> 2
    [] pc = "sleep" -> 1
    [] OTHER -> 0

Measure == (IterationCap - i) * 9 + Rank

\* C3: MergePRs always terminates, whatever the platform answers: it never
\* makes more than 99 calls of mergeStep, every transition strictly decreases
\* a measure that is never negative, and as long as it has not returned it
\* can take a transition.
C3_Terminates ==
  /\ [](/\ steps < IterationCap
        /\ i <= IterationCap
        /\ Measure >= 0
        /\ (pc # "returned" => ENABLED MergePRsNext))
  /\ [][Measure' < Measure]_vars

\* C3 witness: the iteration cap ended the loop, after 99 steps
C3_CapReached ==
  /\ pc = "returned"
  /\ i = IterationCap
  /\ steps = IterationCap - 1
  /\ errCount < ErrThreshold

\* The run ended in Done: its last step listed the pull requests, found none
\* of the bot's, and MergePRs returned nil
EndedDone ==
  /\ pc = "returned"
  /\ calls = <<"ListPullRequests">>
  /\ ~hasMore
  /\ err = "nil"

\* C4 as stated: with a supply of K bot pull requests that each merge on
\* their first step, for every K up to the iteration cap (99 steps), after K
\* merges the next listing is empty and MergePRs ends in Done with no error.
C4_SupplyEndsDoneUpToCap ==
  (pc = "returned" /\ total <= IterationCap - 1)
    => (EndedDone /\ supply = 0 /\ steps = total + 1)

\* C4 amended: the same for every K below the number of steps the cap allows
\* (K <= 98), so that step K + 1 is still run.
C4_SupplyEndsDoneBelowCap ==
  (pc = "returned" /\ total <= IterationCap - 2)
    => (EndedDone /\ supply = 0 /\ steps = total + 1)

\* C4 witness: 98 pull requests merged, step 99 found the listing empty
C4_LargestSupplyDone ==
  /\ pc = "returned"
  /\ total = IterationCap - 2
  /\ steps = IterationCap - 1
  /\ supply = 0
  /\ EndedDone

\* C5: when the check verdict of a step is failed, MergePRs stops after that
\* step: mergeStep returns (stop, ErrFailedCheck), nothing but the return of
\* MergePRs follows, and the iteration has no sleep, no second listing, no
\* review and no merge call.
C5_FailedCheckStops ==
  verdict = "ErrFailedCheck" =>
    /\ pc \in {"stepReturned", "returned"}
    /\ ~hasMore
    /\ err = "ErrFailedCheck"
    /\ Count("ListPullRequests") = 1
    /\ ~Called("Sleep")
    /\ ~Called("CreateReview")
    /\ ~Called("SubmitReview")
    /\ ~Called("Merge")

\* C5 witness: MergePRs returned ErrFailedCheck from a step after the first
C5_ReturnedFailedCheck ==
  pc = "returned" /\ verdict = "ErrFailedCheck" /\ err = "ErrFailedCheck" /\ steps > 1

\* C6: a step that got past the listing and ended with an error other than
\* the failed-check verdict goes to WaitingRetry: the failure counter is
\* incremented and the loop sleeps.
C6_OtherErrorsRetry ==
  [][(/\ pc = "stepReturned"
      /\ Called("ListWorkflowRuns")
      /\ err \notin {"nil", "ErrFailedCheck"})
       => (errCount' = errCount + 1 /\ pc' = "sleep")]_vars

\* C7: the failure counter is incremented by one on every step that ends in
\* WaitingRetry, reset to zero by every successful merge, never exceeds the
\* threshold, and no step is started once it has reached the threshold.
C7_FailureCounter ==
  /\ [](/\ errCount \in 0..ErrThreshold
        /\ (errCount >= ErrThreshold => pc \in {"sleep", "for", "returned"}))
  /\ [][/\ WaitingRetry => errCount' = errCount + 1
        /\ MergeSucceeded => errCount' = 0
        /\ steps' # steps => errCount < ErrThreshold]_vars

\* C7 witness: the threshold ended the loop
C7_ThresholdReached ==
  pc = "returned" /\ errCount = ErrThreshold /\ i < IterationCap

\* ------------------------------------------------------------------------
\* Properties of the drain loop
\* ------------------------------------------------------------------------
Drained == gpc \in {"afterNext", "afterHasNext", "done"}

\* C1: when no Retrieve call fails, draining a fresh generator with
\* `for HasNext() { Next() }` yields exactly the items of all pages in their
\* original order, whatever the page boundaries (pages with zero items
\* included); after that Next returns EndOfList and HasNext returns false.
C1_DrainYieldsAllInOrder ==
  fails = 0 =>
    /\ gpc # "panic"
    /\ Drained => got = Flatten(pages)
    /\ gpc \in {"afterHasNext", "done"} => nextErr = "EndOfList"
    /\ gpc = "done" => hasNextRet = FALSE

\* ------------------------------------------------------------------------
\* Properties of checkStatusChecks
\* ------------------------------------------------------------------------
\* checkStatusChecks ran to its classification (no remote call failed)
Classified == chkErr \in {"nil", "ErrFailedCheck", "ErrMissingCheck"}

\* C8: the verdict is a function of the final mapping only: failed if any
\* mapped conclusion is "failed"; otherwise missing if any mapped conclusion
\* differs from "success" or the mapping is empty; otherwise ready.  A failed
\* entry takes precedence over missing entries.
C8_VerdictOfFinalMapping ==
  Classified =>
    chkErr = IF \E k \in DOMAIN checkResults : checkResults[k] = "failed"
             THEN "ErrFailedCheck"
             ELSE IF \/ \E k \in DOMAIN checkResults : checkResults[k] # "success"
                     \/ DOMAIN checkResults = {}
                  THEN "ErrMissingCheck"
                  ELSE "nil"

\* C8 witness: a mapping with a failed entry and a missing entry was
\* classified as failed
C8_FailedOverMissing ==
  /\ chkErr = "ErrFailedCheck"
  /\ \E k \in DOMAIN checkResults : checkResults[k] = "failed"
  /\ \E k \in DOMAIN checkResults : checkResults[k] \notin {"success", "failed"}

\* The commit statuses whose context is a key seeded from the required checks
RECURSIVE RequiredStatusesOnly(_, _)
RequiredStatusesOnly(sts, req) ==
  IF sts = <<>> THEN <<>>
  ELSE (IF Head(sts).context \in RequiredKeys(req) THEN <<Head(sts)>> ELSE <<>>)
       \o RequiredStatusesOnly(Tail(sts), req)

\* C9: commit statuses for contexts that are not required are ignored: the
\* keys of the verdict mapping are exactly the keys seeded from the required
\* checks, and the verdict is the one obtained without those statuses.
C9_NonRequiredStatusesIgnored ==
  Classified =>
    /\ DOMAIN checkResults = RequiredKeys(requiredChecks)
    /\ chkErr = checkStatusChecks(requiredChecks,
                                  RequiredStatusesOnly(repoStatuses, requiredChecks),
                                  checkRuns, "none").err

\* C10: with no required checks the verdict is missing, whatever the commit
\* statuses and check-runs are.
C10_NoRequiredChecksIsMissing ==
  (Classified /\ requiredChecks = <<>>) => chkErr = "ErrMissingCheck"

\* Some commit status reports v under the key k
StatusSays(k, v) ==
  \E j \in 1..Len(repoStatuses) :
    repoStatuses[j].context = k /\ repoStatuses[j].state = v

\* The check-runs that resolve to the key k, by their position in the listing
RunsFor(k) ==
  {j \in 1..Len(checkRuns) : CheckKey(checkRuns[j].name, checkRuns[j].appId) = k}

\* The value a check-run reports: its conclusion if set, else its status
RunValue(j) ==
  IF checkRuns[j].conclusion # "" THEN checkRuns[j].conclusion
  ELSE checkRuns[j].status

\* C11: if a commit status or a check-run reports a required check as failed,
\* the verdict is failed, whatever the other subsystem reports for that check.
C11_AnyFailureIsFailed ==
  Classified =>
    \A k \in RequiredKeys(requiredChecks) :
      (StatusSays(k, "failed") \/ \E j \in RunsFor(k) : RunValue(j) = "failed")
        => chkErr = "ErrFailedCheck"

\* C12: if the commit status of a required check is success and no subsystem
\* reports a failure for it, the mapped conclusion of the check is success,
\* even when a check-run for the same key is still in progress.
C12_StatusSuccessSatisfies ==
  Classified =>
    \A k \in RequiredKeys(requiredChecks) :
      (/\ StatusSays(k, "success")
       /\ \A v \in Conclusions \ {"success"} : ~StatusSays(k, v)
       /\ \A j \in RunsFor(k) : RunValue(j) # "failed")
        => checkResults[k] = "success"

\* C13: when a commit status and a check-run resolve to the same key, the
\* mapped conclusion after the fold is the value of the check-run (of the last
\* one listed, when several resolve to the key): its conclusion if set, else
\* its status.
C13_CheckRunWins ==
  Classified =>
    \A k \in {repoStatuses[j].context : j \in 1..Len(repoStatuses)} :
      RunsFor(k) # {} =>
        /\ k \in DOMAIN checkResults
        /\ LET last == CHOOSE j \in RunsFor(k) : \A j2 \in RunsFor(k) : j2 <= j
           IN checkResults[k] = RunValue(last)

\* C13 witness: a commit status reports success for a required check, a
\* check-run in progress resolves to the same key, and the mapped value is
\* the status of the check-run
C13_InProgressRunOverSuccess ==
  /\ Classified
  /\ \E k \in RequiredKeys(requiredChecks) :
       /\ StatusSays(k, "success")
       /\ \E j \in RunsFor(k) :
            /\ checkRuns[j].conclusion = ""
            /\ checkResults[k] = checkRuns[j].status
            /\ checkResults[k] # "success"

\* ------------------------------------------------------------------------
\* Properties of the selection of the active pull request
\* ------------------------------------------------------------------------
\* mergeStep has chosen its active pull request and not returned yet
Selected ==
  pc \in {"approveWorkflowRuns", "checkStatusChecks", "approvePr", "mergePr"}

\* The positions of the mergeable pull requests in renovatePrs
MergeableAt == {k \in 1..Len(renovatePrs) : renovatePrs[k].mergeable}

C15_OldestFirst ==
  Selected =>
    IF MergeableAt # {}
    THEN \E k \in MergeableAt :
           /\ \A k2 \in MergeableAt : k <= k2
           /\ activePr = renovatePrs[k]
    ELSE activePr = renovatePrs[1]

\* ------------------------------------------------------------------------
\* Properties of approvePr
\* ------------------------------------------------------------------------
HasApproved(revs) == \E k \in 1..Len(revs) : revs[k] = "APPROVED"

Made(a, name) == \E k \in 1..Len(a.calls) : a.calls[k].name = name

\* C16: approvePr is idempotent.  When the pull request already has a review
\* in the APPROVED state, approvePr makes no create-review and no
\* submit-review call, leaves the reviews as they are, and returns success
\* when the listing succeeded; and after one successful approvePr on a pull
\* request without an approved review, the next call adds no review.
C16_ApproveIdempotent ==
  \A n \in 1..Len(approvals) :
    LET a == approvals[n]
    IN /\ HasApproved(a.before) =>
            /\ ~Made(a, "CreateReview")
            /\ ~Made(a, "SubmitReview")
            /\ a.after = a.before
            /\ (a.calls[1].err = "nil" => a.err = "nil")
       /\ (/\ n > 1
           /\ ~HasApproved(approvals[n - 1].before)
           /\ approvals[n - 1].err = "nil")
            => Len(a.after) = Len(a.before)

\* C17: if creating the review succeeds but the submit-review call fails,
\* approvePr returns an error.
C17_SubmitFailureIsError ==
  \A n \in 1..Len(approvals) :
    LET a == approvals[n]
    IN (\E k \in 1..Len(a.calls) :
          a.calls[k].name = "SubmitReview" /\ a.calls[k].err # "nil")
         => a.err # "nil"

\* ------------------------------------------------------------------------
\* Properties of mergePr
\* ------------------------------------------------------------------------
Issued(m, name) == \E k \in 1..Len(m.calls) : m.calls[k] = name

\* C18: mergePr re-fetches the pull request first; if the re-fetch fails, or
\* the refreshed pull request is not rebaseable, it returns an error and the
\* merge call is never issued.
C18_NoMergeUnlessRebaseable ==
  \A n \in 1..Len(merges) :
    LET m == merges[n]
    IN /\ m.calls[1] = "GetPullRequest"
       /\ (m.answer.get # "nil" \/ ~m.answer.rebaseable) =>
            /\ ~Issued(m, "Merge")
            /\ m.err # "nil"

\* C18 witness: the pull request was rebaseable when selected, the refreshed
\* one is not, and mergePr returned an error without the merge call although
\* the platform would have merged
C18_StoppedOnRefreshedFlag ==
  \E n \in 1..Len(merges) :
    LET m == merges[n]
    IN /\ m.selected.rebaseable
       /\ m.answer.get = "nil"
       /\ ~m.answer.rebaseable
       /\ m.answer.result = "merged"
       /\ m.calls = <<"GetPullRequest">>
       /\ m.err # "nil"

\* C19: mergePr returns success if and only if the merge call was issued and
\* its response reports merged = true; a response reporting not merged, a
\* transport error and a response carrying no merge result all make it
\* return an error.
C19_SuccessIffMerged ==
  \A n \in 1..Len(merges) :
    LET m == merges[n]
    IN m.err = "nil" <=> (Issued(m, "Merge") /\ m.answer.result = "merged")

\* ------------------------------------------------------------------------
\* Properties of the generator under page-fetch failures
\* ------------------------------------------------------------------------
\* The caller is in a call of HasNext (otherwise, of Next)
InHasNext == gpc \in {"loop", "afterHasNext"}

\* C20: a page-fetch failure is reported to the caller of the call that
\* triggered the fetch: Next returns the error of Retrieve, and HasNext does
\* not tell its caller that a next item exists.
C20_FetchFailureReported ==
  [][fails' > fails =>
       IF InHasNext THEN hasNextRet' = FALSE ELSE nextErr' = "transport"]_vars

\* ------------------------------------------------------------------------
\* Properties of the generator under any order of calls
\* ------------------------------------------------------------------------
\* C21: once Next has returned EndOfList, every later call to Next returns
\* EndOfList and every later call to HasNext returns false, whatever the
\* order of the calls.
C21_EndOfListIsFinal ==
  \A m \in 1..Len(gcalls) :
    (gcalls[m].op = "Next" /\ gcalls[m].err = "EndOfList") =>
      \A n \in (m + 1)..Len(gcalls) :
        IF gcalls[n].op = "Next"
        THEN gcalls[n].err = "EndOfList"
        ELSE gcalls[n].ret = FALSE

\* C21 witness: after Next returned EndOfList, a HasNext and a Next were
\* called
C21_CalledAfterEnd ==
  \E m \in 1..Len(gcalls) :
    /\ gcalls[m].op = "Next"
    /\ gcalls[m].err = "EndOfList"
    /\ \E n1, n2 \in (m + 1)..Len(gcalls) :
         gcalls[n1].op = "HasNext" /\ gcalls[n2].op = "Next"

\* C22: when the first page fetched has zero items and no further page, every
\* HasNext returns false, no item is ever yielded, and every Next returns
\* EndOfList.
C22_EmptyFirstPage ==
  (pages = <<<<>>>> /\ fails = 0) =>
    /\ got = <<>>
    /\ \A n \in 1..Len(gcalls) :
         IF gcalls[n].op = "Next"
         THEN gcalls[n].err = "EndOfList"
         ELSE gcalls[n].ret = FALSE

\* The calls among the first n that invoked Retrieve and got a page
FetchedOk(n) == {m \in 1..n : gcalls[m].fetch /\ gcalls[m].ok}

\* The calls among the first n that invoked Retrieve
Fetched(n) == {m \in 1..n : gcalls[m].fetch}

\* A page is cached after call n: Retrieve has been invoked, and its last
\* invocation returned a page
Cached(n) ==
  /\ Fetched(n) # {}
  /\ \E m \in FetchedOk(n) : \A m2 \in Fetched(n) : m2 <= m

\* The number of the page a call asks Retrieve for (0 names the first page)
PageAsked(n) == IF gcalls[n].page = 0 THEN 1 ELSE gcalls[n].page

\* The number of items Next has yielded in the first n calls
Yielded(n) ==
  Cardinality({m \in 1..n : gcalls[m].op = "Next" /\ gcalls[m].err = "nil"})

\* C23: HasNext is idempotent once a page is cached: a HasNext that follows
\* a HasNext with no Next in between returns the same boolean, does not
\* invoke Retrieve, and leaves the generator as it was, so the item the
\* following Next returns is the same.
C23_HasNextIdempotent ==
  \A n \in 2..Len(gcalls) :
    (/\ gcalls[n - 1].op = "HasNext"
     /\ gcalls[n].op = "HasNext"
     /\ Cached(n - 1))
      => /\ gcalls[n].ret = gcalls[n - 1].ret
         /\ ~gcalls[n].fetch
         /\ gcalls[n].after = gcalls[n].before

\* C24: pages are fetched lazily: Retrieve is invoked only for a page that
\* exists, when every item of the pages before it has been yielded, and the
\* last response announced that page (or no page has been fetched yet); it
\* is never invoked after a response with NextPage = 0.
C24_LazyFetch ==
  \A n \in 1..Len(gcalls) :
    gcalls[n].fetch =>
      LET q == PageAsked(n)
      IN /\ q <= Len(pages)
         /\ Yielded(n - 1) = Len(Flatten(SubSeq(pages, 1, q - 1)))
         /\ IF FetchedOk(n - 1) = {}
            THEN gcalls[n].page = 0
            ELSE \E m \in FetchedOk(n - 1) :
                   /\ \A m2 \in FetchedOk(n - 1) : m2 <= m
                   /\ PageAsked(m) = q - 1
         /\ \A m \in FetchedOk(n - 1) : PageAsked(m) < Len(pages)

\* C24 witness: HasNext was called without a fetch while an item of the first
\* page was still to be yielded, and the second page was fetched after that
\* item was yielded
C24_SecondPageFetchedLate ==
  \E m, n \in 1..Len(gcalls) :
    /\ m < n
    /\ gcalls[m].op = "HasNext"
    /\ ~gcalls[m].fetch
    /\ gcalls[m].ret = TRUE
    /\ gcalls[n].fetch
    /\ gcalls[n].ok
    /\ gcalls[n].page = 2
    /\ Yielded(n - 1) > 0

\* ------------------------------------------------------------------------
\* Properties of the outcomes of a step
\* ------------------------------------------------------------------------
\* After a step that returned (stop, err), MergePRs returns err at once: no
\* further call, no sleep, no further step
StopReturns ==
  (pc = "stepReturned" /\ ~hasMore) =>
    (pc' = "returned" /\ result' = err /\ calls' = calls /\ steps' = steps)

\* The step returned at the listing
ReturnedAtListing == pc' = "stepReturned" /\ calls' = <<"ListPullRequests">>

C26_ReturnsLastStepError ==
  IF pc = "returned"
  THEN /\ result = err
       /\ ~hasMore => ~Called("Sleep")
       /\ verdict = "ErrFailedCheck" => result = "ErrFailedCheck"
       /\ errCount >= ErrThreshold => result # "nil"
       /\ (hasMore /\ errCount = 0) => result = "nil"
  ELSE result = "none"

\* C26 witness: the failure threshold ended the loop and MergePRs returned
\* the error of the tenth failed step
C26_ReturnedAtThreshold ==
  /\ pc = "returned"
  /\ errCount = ErrThreshold
  /\ result = "ErrMissingCheck"
  /\ steps = ErrThreshold

\* No pull request of the listing is the bot's
NoBot(prs) == \A k \in 1..Len(prs) : prs[k].login # BotLogin

C28_MissingIsTransient ==
  /\ [](verdict = "ErrMissingCheck" =>
          /\ pc \in {"stepReturned", "sleep", "for", "returned"}
          /\ hasMore
          /\ err = "ErrMissingCheck"
          /\ ~Called("CreateReview")
          /\ ~Called("SubmitReview")
          /\ ~Called("Merge"))
  /\ [][(pc = "stepReturned" /\ verdict = "ErrMissingCheck") =>
          (errCount' = errCount + 1 /\ pc' = "sleep")]_vars
  /\ [][(pc = "sleep" /\ verdict = "ErrMissingCheck") =>
          (pc' = "for" /\ calls' = Append(calls, "Sleep"))]_vars
  /\ [][(/\ pc = "for"
          /\ verdict = "ErrMissingCheck"
          /\ i < IterationCap
          /\ errCount < ErrThreshold) =>
          (pc' = "mergeStep" /\ steps' = steps + 1)]_vars
  /\ [][pc = "mergeStep" => calls' = <<"ListPullRequests">>]_vars

\* C28 witness: the iteration after a missing verdict has listed the
\* candidates again
C28_RelistedAfterMissing ==
  /\ pc = "approveWorkflowRuns"
  /\ err = "ErrMissingCheck"
  /\ errCount >= 1
  /\ calls = <<"ListPullRequests">>

\* C29: a merge attempted on a pull request that is not rebaseable is a step
\* failure, not a fatal one: the step returns (continue, error) without the
\* merge call, the failure counter goes up by one and the loop sleeps and
\* goes on.
C29_NotRebaseableRetries ==
  /\ [][MergePr({"notRebaseable"}) =>
          (/\ pc' = "stepReturned"
           /\ hasMore'
           /\ err' = "not rebaseable"
           /\ \A k \in 1..Len(calls') : calls'[k] # "Merge")]_vars
  /\ [][(pc = "stepReturned" /\ err = "not rebaseable") =>
          (errCount' = errCount + 1 /\ pc' = "sleep")]_vars
  /\ [][(pc = "sleep" /\ err = "not rebaseable") => pc' = "for"]_vars

\* C29 witness: the loop sleeps after a step that found its pull request not
\* rebaseable
C29_SleepingAfterNotRebaseable ==
  /\ pc = "sleep"
  /\ err = "not rebaseable"
  /\ errCount >= 1
  /\ Called("GetPullRequest")

\* The operation of the step a remote call belongs to
Phase(name) ==
  CASE name = "ListPullRequests" -> 1
    [] name \in {"ListWorkflowRuns", "ApproveWorkflowRun"} -> 2
    [] name \in {"GetRequiredStatusChecks", "GetCombinedStatus", "ListCheckRuns"} -> 3
    [] name \in {"ListReviews", "CreateReview", "SubmitReview"} -> 4
    [] name \in {"GetPullRequest", "Merge"} -> 5
    [] OTHER -> 6

PhasesOf(cs) == {Phase(cs[k]) : k \in 1..Len(cs)}

\* C30: within a step the remote operations occur strictly in the order
\* listing, workflow-run approval, check verdict, review approval, merge;
\* each starts only after the previous one returned without error, and the
\* next listing starts only in a new iteration.
C30_StepOrder ==
  /\ [](/\ \A k \in 1..(Len(calls) - 1) : Phase(calls[k]) <= Phase(calls[k + 1])
        /\ \A ph \in PhasesOf(calls) \cap 2..5 : (ph - 1) \in PhasesOf(calls)
        /\ Count("ListPullRequests") <= 1)
  /\ [][pc = "approveWorkflowRuns" =>
          \A o \in GateOutcomes :
            (approveWorkflowRuns(o).err # "nil" /\ ApproveRuns({o})) =>
              pc' = "stepReturned"]_vars
  /\ [][pc = "checkStatusChecks" =>
          \A r \in CheckReturns :
            (r.err # "nil" /\ CheckStatuses({r})) => pc' = "stepReturned"]_vars
  /\ [][pc = "approvePr" =>
          \A o \in ReviewOutcomes :
            (approvePr(o).err # "nil" /\ ApprovePr({o})) =>
              pc' = "stepReturned"]_vars
  /\ [][Count("ListPullRequests")' > 0 /\ calls' # calls /\ Len(calls') = 1
          => pc = "mergeStep"]_vars

\* C30 witness: a step ran all its operations
C30_RanAllOperations ==
  /\ pc = "stepReturned"
  /\ Called("ApproveWorkflowRun")
  /\ Called("ListCheckRuns")
  /\ Called("SubmitReview")
  /\ Called("Merge")

\* ------------------------------------------------------------------------
\* Properties of the keys of the check mapping
\* ------------------------------------------------------------------------
\* The state of the last commit status listed for the context k, "missing"
\* when there is none
LastStatus(k) ==
  LET at == {j \in 1..Len(repoStatuses) : repoStatuses[j].context = k}
  IN IF at = {} THEN "missing"
     ELSE repoStatuses[CHOOSE j \in at : \A j2 \in at : j2 <= j].state

\* C31: two checks that share a name but come from different providers never
\* collide: required checks with the same context and different app ids (or
\* one without app id) have different keys, and a check-run changes no entry
\* but the one whose key is its own name suffixed with its own app id: the
\* entry of another app id, or of the unsuffixed name, stays as the commit
\* statuses left it.
C31_ProvidersDoNotCollide ==
  /\ \A j, k \in 1..Len(requiredChecks) :
       (/\ requiredChecks[j].context = requiredChecks[k].context
        /\ requiredChecks[j].appId # requiredChecks[k].appId)
         => CheckKey(requiredChecks[j].context, requiredChecks[j].appId)
              # CheckKey(requiredChecks[k].context, requiredChecks[k].appId)
  /\ Classified =>
       \A j \in 1..Len(requiredChecks), r \in 1..Len(checkRuns) :
         LET req == requiredChecks[j]
             key == CheckKey(req.context, req.appId)
         IN (/\ checkRuns[r].name = req.context
             /\ checkRuns[r].appId # req.appId
             /\ RunsFor(key) = {})
              => (key \in DOMAIN checkResults /\ checkResults[key] = LastStatus(key))

\* C31 witness: two required checks named alike, of two providers; a
\* check-run of the first provider succeeded, and the entry of the second is
\* still missing
C31_OtherProviderUntouched ==
  /\ chkErr = "ErrMissingCheck"
  /\ \E j, k \in 1..Len(requiredChecks), r \in 1..Len(checkRuns) :
       /\ requiredChecks[j].context = requiredChecks[k].context
       /\ requiredChecks[j].appId = 1
       /\ requiredChecks[k].appId = 2
       /\ checkRuns[r].name = requiredChecks[j].context
       /\ checkRuns[r].appId = 1
       /\ checkRuns[r].conclusion = "success"
       /\ checkResults[CheckKey(requiredChecks[j].context, 1)] = "success"
       /\ checkResults[CheckKey(requiredChecks[k].context, 2)] = "missing"

\* ------------------------------------------------------------------------
\* Properties of approveWorkflowRuns
\* ------------------------------------------------------------------------
\* The listed runs whose head commit is the pull request's, in listing order
Matching == SelectSeq(Flatten(pages), LAMBDA n : headSHA[n] = "head")

IsPrefix(s, q) == Len(s) <= Len(q) /\ \A k \in 1..Len(s) : s[k] = q[k]

\* C32: whenever Retrieve does not fail and no request fails, an invocation
\* of approveWorkflowRuns sends an approval request for exactly the listed
\* runs whose head commit is the pull request's, once each, for no other run,
\* and returns nil (so with no matching run: no request, and nil).
C32_ApprovesExactlyMatching ==
  \A n \in 1..Len(gates) :
    gates[n].fail.kind = "none"
      => gates[n].requests = Matching /\ gates[n].err = "nil"

\* ------------------------------------------------------------------------
\* Properties of the pull request a step acts on
\* ------------------------------------------------------------------------
\* The remote calls a step makes on behalf of its active pull request
PrCalls ==
  {"ListWorkflowRuns", "ApproveWorkflowRun", "ListReviews", "CreateReview",
   "SubmitReview", "GetPullRequest", "Merge"}

\* C33: only pull requests of the bot are acted on: while a step is past the
\* selection its active pull request is one of the listed pull requests whose
\* author login is the bot's; every workflow-run approval, review and merge
\* call of the step is made in such a state, on that pull request; and the
\* active pull request does not change until the step returns.
C33_OnlyBotPrsActedOn ==
  /\ [](Selected =>
         /\ activePr.login = BotLogin
         /\ \E k \in 1..Len(renovatePrs) : renovatePrs[k] = activePr)
  /\ [][pc = "mergeStep" =>
         \A l \in ListAnswers :
           (ListPrs({l}) /\ Selected') =>
              \E k \in 1..Len(l.prs) :
                l.prs[k] = activePr' /\ l.prs[k].login = BotLogin]_vars
  /\ [][(\E k \in 1..Len(calls') : k > Len(calls) /\ calls'[k] \in PrCalls)
          => (Selected /\ calls' # <<>> /\ Len(calls') > Len(calls))]_vars
  /\ [][(Selected /\ Selected') => activePr' = activePr]_vars

\* C33 witness: the listing held a pull request of someone else before the
\* bot's, and the step has approved runs and the review of the bot's pull
\* request and is about to merge it
C33_ActsOnBotPrOnly ==
  /\ pc = "mergePr"
  /\ Len(renovatePrs) = 1
  /\ activePr.number = 2
  /\ activePr.login = BotLogin
  /\ Called("ApproveWorkflowRun")
  /\ Called("CreateReview")

\* ------------------------------------------------------------------------
\* Properties of the backoff sleep
\* ------------------------------------------------------------------------
\* The sleep comes exactly once after a step that ended in WaitingRetry, and
\* after no other step
SleepAfterRetryOnly ==
  /\ [](/\ Count("Sleep") <= 1
        /\ (pc = "sleep" \/ Called("Sleep")) => (hasMore /\ err # "nil")
        /\ Called("Sleep") => pc \in {"for", "returned"})
  /\ [][/\ WaitingRetry => pc' = "sleep"
        /\ (pc = "stepReturned" /\ ~WaitingRetry) => pc' # "sleep"
        /\ pc = "sleep" => (calls' = Append(calls, "Sleep") /\ pc' = "for")]_vars

\* The loop condition holds: the next iteration is run
LoopContinues == i < IterationCap /\ errCount < ErrThreshold

\* C34 (as stated): the backoff sleep happens exactly once after each step
\* that ended in WaitingRetry and never after a step that ended in a
\* successful merge, Done or Fatal; every sleep is followed by another
\* iteration of the loop.
C34_EverySleepThenIteration ==
  /\ SleepAfterRetryOnly
  /\ [][(pc = "for" /\ Called("Sleep"))
          => (pc' = "mergeStep" /\ steps' = steps + 1)]_vars

\* C34 (amended): the backoff sleep happens exactly once after each step that
\* ended in WaitingRetry and never after a step that ended in a successful
\* merge, Done or Fatal; a sleep is followed by another iteration of the loop
\* unless the failure threshold or the iteration cap has been reached, and
\* then by the return of MergePRs with the error of the last step.
C34_SleepThenIterationOrStop ==
  /\ SleepAfterRetryOnly
  /\ [][(pc = "for" /\ Called("Sleep")) =>
          IF LoopContinues
          THEN pc' = "mergeStep" /\ steps' = steps + 1
          ELSE pc' = "returned" /\ result' = err /\ steps' = steps]_vars

\* C34 witness: the second iteration has started after the sleep that
\* followed a first step ending in WaitingRetry
C34_IterationAfterSleep ==
  /\ pc = "mergeStep"
  /\ steps = 2
  /\ i = 2
  /\ errCount = 1
  /\ err \notin {"nil", "none"}
  /\ calls = <<>>

\* ------------------------------------------------------------------------
\* Properties of HasNext followed by Next
\* ------------------------------------------------------------------------
\* C35: as long as no Retrieve call has failed, whenever HasNext returns true
\* the Next called right after it returns an item and no error: neither
\* EndOfList nor an index past the end of the cached page.
C35_TrueHasNextThenItem ==
  fails = 0 =>
    \A n \in 2..Len(gcalls) :
      (/\ gcalls[n - 1].op = "HasNext"
       /\ gcalls[n - 1].ret = TRUE
       /\ gcalls[n].op = "Next")
        => (gcalls[n].err = "nil" /\ gcalls[n].item # NoItem)

\* ------------------------------------------------------------------------
\* Properties of a failed page fetch
\* ------------------------------------------------------------------------
\* Call m is the first call after call n that invokes Retrieve
NextFetchAfter(n, m) ==
  /\ n < m
  /\ gcalls[m].fetch
  /\ \A k \in (n + 1)..(m - 1) : ~gcalls[k].fetch

\* Call m is the first call of Next at or after call n
FirstNextFrom(n, m) ==
  /\ n <= m
  /\ gcalls[m].op = "Next"
  /\ \A k \in n..(m - 1) : gcalls[k].op # "Next"

\* C36: a failed page fetch does not advance the cursor: the failing call
\* leaves g.nextPage as it was, the next call of Retrieve asks for the same
\* page again, and if that call succeeds on a page that has items the next
\* item Next returns is the first item of that page; the items yielded are
\* always the items of the listing in order, none skipped, none twice.
C36_FailedFetchKeepsCursor ==
  /\ \A n \in 1..Len(gcalls) :
       (gcalls[n].fetch /\ ~gcalls[n].ok) =>
         /\ gcalls[n].after.nextPage = gcalls[n].before.nextPage
         /\ \A m \in 1..Len(gcalls) :
              NextFetchAfter(n, m) =>
                /\ gcalls[m].page = gcalls[n].page
                /\ (gcalls[m].ok /\ pages[PageAsked(m)] # <<>>) =>
                     \A k \in 1..Len(gcalls) :
                       FirstNextFrom(m, k) =>
                         /\ gcalls[k].err = "nil"
                         /\ gcalls[k].item = pages[PageAsked(m)][1]
  /\ IsPrefix(got, Flatten(pages))

\* C36 witness: the fetch of the second page failed after the first page was
\* yielded, the next fetch asked for the second page again and got it, and
\* Next returned its first item
C36_RetriedSecondPage ==
  \E n, m \in 1..Len(gcalls) :
    /\ Len(pages) >= 2
    /\ pages[2] # <<>>
    /\ gcalls[n].fetch
    /\ ~gcalls[n].ok
    /\ PageAsked(n) = 2
    /\ Yielded(n) > 0
    /\ NextFetchAfter(n, m)
    /\ gcalls[m].ok
    /\ PageAsked(m) = 2
    /\ \E k \in 1..Len(gcalls) :
         /\ FirstNextFrom(m, k)
         /\ gcalls[k].item = pages[2][1]
         /\ got = SubSeq(Flatten(pages), 1, Len(pages[1]) + 1)

====
